---------------------------- MODULE Spec2Model ----------------------------
(* Model of the task REST handlers of src/src/index.js (Express routes over  *)
(* the Supabase table "Tasks").  Only the first registration of each route   *)
(* is modelled: Express dispatches to the first matching route, so the       *)
(* second copies (index.js lines 553-930) never run.                         *)
(*                                                                         *)
(* Text values (title, author, priority, description, search terms) are     *)
(* sequences of one-character strings, so that trim, toLowerCase and the     *)
(* store's ilike work on characters.  Date texts are strings looked up by    *)
(* DateParse.  A JavaScript object is a function whose domain is the set of  *)
(* keys that are present; a table row is a function whose domain is the set  *)
(* of its non-null columns.                                                  *)
EXTENDS Integers, Sequences, FiniteSets, TLC

(***************************************************************************)
(* Bounds of the model.                                                    *)
(***************************************************************************)
\* Largest id the store's sequence hands out: at most MaxId inserts are tried.
MaxId == 2

(***************************************************************************)
(* JavaScript helpers.                                                     *)
(***************************************************************************)
Has(o, k) == k \in DOMAIN o

\* String.prototype.trim on a sequence of characters.
RECURSIVE TrimLeft(_)
TrimLeft(s) == IF s # <<>> /\ Head(s) = " " THEN TrimLeft(Tail(s)) ELSE s

RECURSIVE TrimRight(_)
TrimRight(s) ==
    IF s # <<>> /\ s[Len(s)] = " " THEN TrimRight(SubSeq(s, 1, Len(s) - 1)) ELSE s

Trim(s) == TrimRight(TrimLeft(s))

LowerChar(c) ==
    CASE c = "A" -> "a"
      [] c = "B" -> "b"
      [] c = "H" -> "h"
      [] c = "I" -> "i"
      [] c = "G" -> "g"
      [] OTHER -> c

\* String.prototype.toLowerCase.
ToLowerCase(s) == [i \in 1..Len(s) |-> LowerChar(s[i])]

\* A present, non-empty string is truthy; undefined (absent key) and "" are falsy.
Truthy(o, k) == Has(o, k) /\ o[k] # <<>>
\* The same for the values the model keeps as strings (date texts, order).
TruthyDate(o, k) == Has(o, k) /\ o[k] # ""

\* Date.parse: days since the epoch for the date texts of the model, NaN otherwise.
NaN == -1
DateParse(d) ==
    CASE d = "2024-01-01" -> 19723
      [] d = "2024-01-01T00:00:00Z" -> 19723
      [] d = "2024-01-10" -> 19732
      [] OTHER -> NaN

\* validPriorities of the create handler.
validPriorities == { <<"l","o","w">>, <<"m","e","d","i","u","m">>, <<"h","i","g","h">> }

\* Requests that can be in progress at the same time.
MaxInflight == 2

(***************************************************************************)
(* State.                                                                  *)
(***************************************************************************)
VARIABLES
    store,      \* table Tasks: row key (the id assigned at insertion) -> row
    nextId,     \* next value of the id sequence of the table
    usedIds,    \* history: every id some row has held so far
    resp,       \* the last request handled and the response sent for it
    inflight    \* per client: the request suspended between its two store calls

vars == <<store, nextId, usedIds, resp, inflight>>

\* Connections on which requests arrive; a handler awaiting the store is
\* suspended and a request of another connection can run meanwhile.
Clients == 1..MaxInflight

\* No handler of the connection is awaiting its second store call.
Idle == [op |-> "idle"]

\* Request ids: every id the sequence can hand out, and one beyond.
ReqIds == 1..(MaxId + 1)

Rows == { store[k] : k \in DOMAIN store }


(***************************************************************************)
(* The store: the operations of the supabase query builder the handlers    *)
(* use, on the table held in `store`.                                      *)
(***************************************************************************)
\* Keys of the rows a filter .eq('id', id) selects.
KeysWithId(st, id) == { k \in DOMAIN st : st[k]["id"] = id }

\* .select(...).eq('id', id).single(): an error unless exactly one row matches.
StoreSelectSingle(st, id) ==
    LET ks == KeysWithId(st, id)
    IN  IF Cardinality(ks) = 1
        THEN [error |-> FALSE, data |-> st[CHOOSE k \in ks : TRUE]]
        ELSE [error |-> TRUE]

\* .insert([model]).select(): the sequence gives the id, the store the creation
\* time; a row that already holds the id is a unique violation (code 23505).
StoreInsert(st, seq, model) ==
    IF KeysWithId(st, seq) # {}
    THEN [error |-> TRUE, code |-> "23505", store |-> st]
    ELSE LET row == [k \in DOMAIN model \cup {"id", "created_at"} |->
                        IF k \in {"id", "created_at"} THEN seq ELSE model[k]]
         IN  [error |-> FALSE, data |-> <<row>>, store |-> (seq :> row) @@ st]

\* Faulty variant: the row is replaced by `updates` (a PUT), keeping only the
\* store-managed columns.
OverwriteReplacing(row, updates) ==
    [k \in (DOMAIN row \cap {"id", "created_at"}) \cup DOMAIN updates |->
        IF k \in DOMAIN updates THEN updates[k] ELSE row[k]]

\* A row with the columns of `updates` overwritten.
Overwrite(row, updates) ==
    [k \in DOMAIN row \cup DOMAIN updates |->
        IF k \in DOMAIN updates THEN updates[k] ELSE row[k]]

\* .update(updates).eq('id', id).select(): every column of `updates` is written
\* as given, the id column included; the primary key stays unique.
StoreUpdate(st, id, updates) ==
    LET ks == KeysWithId(st, id)
        clash == /\ Has(updates, "id")
                 /\ ks # {}
                 /\ \E k \in DOMAIN st \ ks : st[k]["id"] = updates["id"]
        new == [k \in DOMAIN st |-> IF k \in ks THEN Overwrite(st[k], updates) ELSE st[k]]
    IN  IF clash
        THEN [error |-> TRUE, code |-> "23505", store |-> st]
        ELSE [error |-> FALSE,
              data |-> IF ks = {} THEN <<>> ELSE << new[CHOOSE k \in ks : TRUE] >>,
              store |-> new]

\* .delete().eq('id', id).select(): removes the rows and returns them.
StoreDelete(st, id) ==
    LET ks == KeysWithId(st, id)
    IN  [error |-> FALSE,
         data |-> IF ks = {} THEN <<>> ELSE << st[CHOOSE k \in ks : TRUE] >>,
         store |-> [k \in DOMAIN st \ ks |-> st[k]]]

(***************************************************************************)
(* POST /tasks                                                             *)
(***************************************************************************)
\* Faulty variant: title and author are tested without trim().
CreateValidateUntrimmed(body) ==
    IF ~Truthy(body, "title") THEN "Title is required"
    ELSE IF ~Truthy(body, "author") THEN "Author is required"
    ELSE IF Truthy(body, "priority") /\ ToLowerCase(body["priority"]) \notin validPriorities
        THEN "Priority must be one of"
    ELSE IF TruthyDate(body, "due_date") /\ DateParse(body["due_date"]) = NaN
        THEN "Invalid due_date format"
    ELSE IF TruthyDate(body, "start_date") /\ DateParse(body["start_date"]) = NaN
        THEN "Invalid start_date format"
    ELSE IF /\ TruthyDate(body, "start_date")
            /\ TruthyDate(body, "due_date")
            /\ DateParse(body["start_date"]) > DateParse(body["due_date"])
        THEN "Start date cannot be after due date"
    ELSE "ok"

\* The validation of the create handler: the first failing check, or "ok".
CreateValidate(body) ==
    IF ~Truthy(body, "title") \/ Trim(body["title"]) = <<>>
        THEN "Title is required"
    ELSE IF ~Truthy(body, "author") \/ Trim(body["author"]) = <<>>
        THEN "Author is required"
    ELSE IF Truthy(body, "priority") /\ ToLowerCase(body["priority"]) \notin validPriorities
        THEN "Priority must be one of"
    ELSE IF TruthyDate(body, "due_date") /\ DateParse(body["due_date"]) = NaN
        THEN "Invalid due_date format"
    ELSE IF TruthyDate(body, "start_date") /\ DateParse(body["start_date"]) = NaN
        THEN "Invalid start_date format"
    ELSE IF /\ TruthyDate(body, "start_date")
            /\ TruthyDate(body, "due_date")
            /\ DateParse(body["start_date"]) > DateParse(body["due_date"])
        THEN "Start date cannot be after due date"
    ELSE "ok"

\* Faulty variant: the description is forwarded as given, not trimmed.
CreateModelRawDescription(body) ==
    [k \in {"title", "author"}
            \cup { f \in {"priority", "description"} : Truthy(body, f) }
            \cup { f \in {"due_date", "start_date"} : TruthyDate(body, f) } |->
        CASE k = "title" -> Trim(body["title"])
          [] k = "author" -> Trim(body["author"])
          [] k = "priority" -> ToLowerCase(body["priority"])
          [] OTHER -> body[k]]

\* The object sent to the store: only the fields that are set.
CreateModel(body) ==
    [k \in {"title", "author"}
            \cup { f \in {"priority", "description"} : Truthy(body, f) }
            \cup { f \in {"due_date", "start_date"} : TruthyDate(body, f) } |->
        CASE k = "title" -> Trim(body["title"])
          [] k = "author" -> Trim(body["author"])
          [] k = "priority" -> ToLowerCase(body["priority"])
          [] k = "description" -> Trim(body["description"])
          [] OTHER -> body[k]]

\* Faulty variant: the row is inserted before the dates are compared.
CreateInsertingFirst(body) ==
    /\ nextId <= MaxId
    /\ UNCHANGED inflight
    /\ LET v == CreateValidate(body)
       IN  IF v = "Start date cannot be after due date"
           THEN LET r == StoreInsert(store, nextId, CreateModel(body))
                IN  /\ store' = r.store
                    /\ nextId' = nextId + 1
                    /\ usedIds' = usedIds \cup {nextId}
                    /\ resp' = [op |-> "create", body |-> body, status |-> 400,
                                error |-> v, calls |-> 1]
           ELSE IF v # "ok"
           THEN /\ resp' = [op |-> "create", body |-> body, status |-> 400,
                            error |-> v, calls |-> 0]
                /\ UNCHANGED <<store, nextId, usedIds>>
           ELSE LET r == StoreInsert(store, nextId, CreateModel(body))
                IN  /\ store' = r.store
                    /\ nextId' = nextId + 1
                    /\ IF r.error
                       THEN /\ resp' = [op |-> "create", body |-> body, status |-> 409,
                                        error |-> "Task already exists", calls |-> 1]
                            /\ UNCHANGED usedIds
                       ELSE /\ resp' = [op |-> "create", body |-> body, status |-> 201,
                                        data |-> r.data[1], calls |-> 1]
                            /\ usedIds' = usedIds \cup {r.data[1]["id"]}

Create(body) ==
    /\ nextId <= MaxId
    /\ UNCHANGED inflight
    /\ LET v == CreateValidate(body)
       IN  IF v # "ok"
           THEN /\ resp' = [op |-> "create", body |-> body, status |-> 400,
                            error |-> v, calls |-> 0]
                /\ UNCHANGED <<store, nextId, usedIds>>
           ELSE LET r == StoreInsert(store, nextId, CreateModel(body))
                IN  /\ store' = r.store
                    /\ nextId' = nextId + 1
                    /\ IF r.error
                       THEN /\ resp' = [op |-> "create", body |-> body, status |-> 409,
                                        error |-> "Task already exists", calls |-> 1]
                            /\ UNCHANGED usedIds
                       ELSE /\ resp' = [op |-> "create", body |-> body, status |-> 201,
                                        data |-> r.data[1], calls |-> 1]
                            /\ usedIds' = usedIds \cup {r.data[1]["id"]}

(***************************************************************************)
(* GET /tasks/:id                                                          *)
(***************************************************************************)
\* The router never passes an empty :id; NoId stands for the value `!id` rejects.
NoId == 0

GetByIdResponse(st, id) ==
    IF id = NoId
    THEN [op |-> "get", id |-> id, status |-> 400, error |-> "ID is required", calls |-> 0]
    ELSE LET r == StoreSelectSingle(st, id)
         IN  IF r.error
             THEN [op |-> "get", id |-> id, status |-> 500, error |-> "store", calls |-> 1]
             ELSE [op |-> "get", id |-> id, status |-> 200, data |-> r.data, calls |-> 1]

GetById(id) ==
    /\ resp' = GetByIdResponse(store, id)
    /\ UNCHANGED <<store, nextId, usedIds, inflight>>

(***************************************************************************)
(* PATCH /tasks/:id                                                        *)
(***************************************************************************)
\* Faulty variant: the update is issued without the existence check.
UpdateUnchecked(id, updates) ==
    LET r == StoreUpdate(store, id, updates)
    IN  /\ store' = r.store
        /\ UNCHANGED <<nextId, usedIds, inflight>>
        /\ resp' = [op |-> "update", id |-> id, body |-> updates,
                    status |-> IF r.error THEN 500 ELSE 200, calls |-> 1]

Update(id, updates) ==
    /\ UNCHANGED inflight
    /\ IF id = NoId
       THEN /\ resp' = [op |-> "update", id |-> id, body |-> updates, status |-> 400,
                        error |-> "ID is required", calls |-> 0]
            /\ UNCHANGED <<store, nextId, usedIds>>
       ELSE IF StoreSelectSingle(store, id).error
       THEN /\ resp' = [op |-> "update", id |-> id, body |-> updates, status |-> 404,
                        error |-> "Task not found", calls |-> 1]
            /\ UNCHANGED <<store, nextId, usedIds>>
       ELSE LET r == StoreUpdate(store, id, updates)
            IN  /\ store' = r.store
                /\ UNCHANGED nextId
                /\ IF r.error
                   THEN /\ resp' = [op |-> "update", id |-> id, body |-> updates,
                                    status |-> 500, error |-> "store", calls |-> 2]
                        /\ UNCHANGED usedIds
                   ELSE /\ resp' = [op |-> "update", id |-> id, body |-> updates,
                                    status |-> 200, data |-> r.data[1], calls |-> 2]
                        /\ usedIds' = usedIds \cup {r.data[1]["id"]}

(***************************************************************************)
(* DELETE /tasks/:id                                                       *)
(***************************************************************************)
Delete(id) ==
    /\ UNCHANGED inflight
    /\ IF id = NoId
       THEN /\ resp' = [op |-> "delete", id |-> id, status |-> 400,
                        error |-> "ID is required", calls |-> 0]
            /\ UNCHANGED <<store, nextId, usedIds>>
       ELSE IF StoreSelectSingle(store, id).error
       THEN /\ resp' = [op |-> "delete", id |-> id, status |-> 404,
                        error |-> "Task not found", calls |-> 1]
            /\ UNCHANGED <<store, nextId, usedIds>>
       ELSE LET r == StoreDelete(store, id)
            IN  /\ store' = r.store
                /\ resp' = [op |-> "delete", id |-> id, status |-> 200,
                            data |-> r.data[1], calls |-> 2]
                /\ UNCHANGED <<nextId, usedIds>>

(***************************************************************************)
(* Query helpers shared by the list, search and sort handlers.             *)
(***************************************************************************)
Min(a, b) == IF a < b THEN a ELSE b
Max(a, b) == IF a > b THEN a ELSE b

\* parseInt(x) || d: an absent or non-numeric parameter is NaN, and NaN and 0
\* are both falsy, so both give the default.
ParseIntOr(query, k, d) == IF Has(query, k) /\ query[k] # 0 THEN query[k] ELSE d

\* Math.min(Math.max(parseInt(limit) || d, 1), 100)
PageLimit(query, d) == Min(Max(ParseIntOr(query, "limit", d), 1), 100)

\* Math.max(parseInt(page) || 1, 1)
PageNumber(query) == Max(ParseIntOr(query, "page", 1), 1)

\* Math.ceil(count / limit) for count >= 0 and limit >= 1.
CeilDiv(count, limit) == (count + limit - 1) \div limit

\* Faulty variant: the window runs one position past `to`.
RangeOneMore(rows, from, to) ==
    IF from + 1 > Len(rows) THEN <<>> ELSE SubSeq(rows, from + 1, Min(to + 2, Len(rows)))

\* .range(from, to): the rows at the zero-based positions from..to of the result.
Range(rows, from, to) ==
    IF from + 1 > Len(rows) THEN <<>> ELSE SubSeq(rows, from + 1, Min(to + 1, Len(rows)))

\* String.prototype.split(sep).
RECURSIVE Split(_, _)
Split(s, sep) ==
    IF \A i \in 1..Len(s) : s[i] # sep
    THEN <<s>>
    ELSE LET i == CHOOSE j \in 1..Len(s) :
                    s[j] = sep /\ \A h \in 1..(j - 1) : s[h] # sep
         IN  <<SubSeq(s, 1, i - 1)>> \o Split(SubSeq(s, i + 1, Len(s)), sep)

ToSet(seq) == { seq[i] : i \in 1..Len(seq) }

\* SQL LIKE: % matches any run of characters, _ any one character.
RECURSIVE Like(_, _)
Like(pattern, text) ==
    IF pattern = <<>> THEN text = <<>>
    ELSE IF Head(pattern) = "%"
        THEN Like(Tail(pattern), text) \/ (text # <<>> /\ Like(pattern, Tail(text)))
    ELSE /\ text # <<>>
         /\ (Head(pattern) = "_" \/ Head(pattern) = Head(text))
         /\ Like(Tail(pattern), Tail(text))

\* column ilike pattern: case-insensitive LIKE; a null column never matches.
ILike(row, column, pattern) ==
    Has(row, column) /\ Like(ToLowerCase(pattern), ToLowerCase(row[column]))

\* `%${term}%`
Wrap(term) == <<"%">> \o term \o <<"%">>

\* Columns of the table Tasks.
TextColumns == {"title", "author", "priority", "description"}
DateColumns == {"start_date", "due_date"}
Columns == {"id", "created_at", "updated_at"} \cup TextColumns \cup DateColumns

\* Order of characters in text comparison.
Alphabet == <<" ", "%", "_", "a", "A", "b", "B", "d", "e", "g", "G", "h", "H",
              "i", "I", "l", "m", "n", "o", "u", "w", "x">>
CharRank(c) == CHOOSE i \in 1..Len(Alphabet) : Alphabet[i] = c

RECURSIVE TextLess(_, _)
TextLess(a, b) ==
    IF b = <<>> THEN FALSE
    ELSE IF a = <<>> THEN TRUE
    ELSE IF Head(a) # Head(b) THEN CharRank(Head(a)) < CharRank(Head(b))
    ELSE TextLess(Tail(a), Tail(b))

\* Strict order of two non-null values of a column.
ValueLess(column, x, y) ==
    IF column \in TextColumns THEN TextLess(x, y)
    ELSE IF column \in DateColumns THEN DateParse(x) < DateParse(y)
    ELSE x < y

\* Row a must come before row b under .order(column, {ascending, nullsFirst}).
Before(a, b, column, ascending, nullsFirst) ==
    IF Has(a, column) /\ Has(b, column)
    THEN IF ascending THEN ValueLess(column, a[column], b[column])
         ELSE ValueLess(column, b[column], a[column])
    ELSE IF Has(a, column) THEN ~nullsFirst
    ELSE IF Has(b, column) THEN nullsFirst
    ELSE FALSE

\* The sequences that hold each row of S once.
Orderings(S) ==
    { o \in [1..Cardinality(S) -> S] : \A i, j \in 1..Cardinality(S) : i # j => o[i] # o[j] }

\* The results the store may return for the rows S under an ORDER BY: rows that
\* compare equal come in any order.
Ordered(S, column, ascending, nullsFirst) ==
    { o \in Orderings(S) :
        \A i, j \in 1..Cardinality(S) :
            i < j => ~Before(o[j], o[i], column, ascending, nullsFirst) }

\* The structured filters shared by search and sort: priority membership,
\* author substring, start_date and due_date ranges.  `lower` tells whether the
\* handler lower-cases the priority list (sort does, search does not).
Priorities(query, lower) ==
    LET parts == Split(query["priority"], ",")
    IN  { IF lower THEN ToLowerCase(Trim(parts[i])) ELSE Trim(parts[i]) : i \in 1..Len(parts) }

Filtered(row, query, lower) ==
    /\ Truthy(query, "priority") =>
          Has(row, "priority") /\ row["priority"] \in Priorities(query, lower)
    /\ Truthy(query, "author") => ILike(row, "author", Wrap(Trim(query["author"])))
    /\ TruthyDate(query, "start_date_from") =>
          /\ Has(row, "start_date")
          /\ DateParse(row["start_date"]) >= DateParse(query["start_date_from"])
    /\ TruthyDate(query, "start_date_to") =>
          /\ Has(row, "start_date")
          /\ DateParse(row["start_date"]) <= DateParse(query["start_date_to"])
    /\ TruthyDate(query, "due_date_from") =>
          /\ Has(row, "due_date")
          /\ DateParse(row["due_date"]) >= DateParse(query["due_date_from"])
    /\ TruthyDate(query, "due_date_to") =>
          /\ Has(row, "due_date")
          /\ DateParse(row["due_date"]) <= DateParse(query["due_date_to"])

\* The store rejects a range bound that is no date.
DateBounds == {"start_date_from", "start_date_to", "due_date_from", "due_date_to"}
BadDateBound(query) ==
    \E k \in DateBounds : TruthyDate(query, k) /\ DateParse(query[k]) = NaN

(***************************************************************************)
(* GET /tasks                                                              *)
(***************************************************************************)
\* The response for one order `rows` in which the store returns the table.
ListResponse(query, rows) ==
    LET limit == PageLimit(query, 10)
        page == PageNumber(query)
        from == (page - 1) * limit
        to == from + limit - 1
        count == Len(rows)
    IN  [op |-> "list", query |-> query, status |-> 200, calls |-> 1,
         rows |-> Range(rows, from, to), range |-> <<from, to>>,
         page |-> page, limit |-> limit, total |-> count,
         totalPages |-> CeilDiv(count, limit)]

List(query) ==
    /\ \E rows \in Orderings(Rows) : resp' = ListResponse(query, rows)
    /\ UNCHANGED <<store, nextId, usedIds, inflight>>

(***************************************************************************)
(* GET /tasks/search                                                       *)
(***************************************************************************)
\* A field name is a string of one symbol; an entry of the fields parameter may
\* carry blanks around it.
searchableFields == << <<"title">>, <<"description">>, <<"author">>, <<"priority">> >>

\* fields.split(',').filter(f => searchableFields.includes(f.trim())), or every
\* searchable field when the parameter is not given.
FieldsToSearch(query) ==
    LET Known(f) == Trim(f) \in ToSet(searchableFields)
    IN  IF Truthy(query, "fields")
        THEN SelectSeq(Split(query["fields"], ","), Known)
        ELSE searchableFields

\* validSortFields of the search handler.
validSortFields ==
    { f[1] : f \in ToSet(searchableFields) }
        \cup {"created_at", "updated_at", "start_date", "due_date"}

SearchSortField(query) ==
    IF Has(query, "sort") /\ query["sort"] \in validSortFields
    THEN query["sort"] ELSE "created_at"

\* order === 'asc'
Ascending(query) == Has(query, "order") /\ query["order"] = "asc"

\* The or-group `${field}.ilike.%${term}%` over the selected fields.
\* An entry with blanks around the name, when the store accepts it, names the
\* column without them.
TextMatch(row, fields, term) ==
    \E i \in 1..Len(fields) : ILike(row, Trim(fields[i])[1], Wrap(term))

\* An entry that is not exactly the name of a column: the store either rejects
\* the filter or reads the name without its blanks.
BadFieldEntry(fields) ==
    \E i \in 1..Len(fields) : Len(fields[i]) # 1 \/ fields[i][1] \notin Columns

SearchMatches(st, query, fields, term) ==
    { r \in { st[k] : k \in DOMAIN st } :
        TextMatch(r, fields, term) /\ Filtered(r, query, FALSE) }

Search(query) ==
    /\ UNCHANGED <<store, nextId, usedIds, inflight>>
    /\ IF ~Truthy(query, "q") \/ Trim(query["q"]) = <<>>
       THEN resp' = [op |-> "search", query |-> query, status |-> 400,
                     error |-> "Query parameter q is required", calls |-> 0]
       ELSE LET term == Trim(query["q"])
                fields == FieldsToSearch(query)
                limit == PageLimit(query, 20)
                page == PageNumber(query)
                from == (page - 1) * limit
                to == from + limit - 1
                field == SearchSortField(query)
                asc == Ascending(query)
            IN  IF fields = <<>>
                THEN resp' = [op |-> "search", query |-> query, status |-> 400,
                              error |-> "Invalid fields", calls |-> 0]
                ELSE \/ /\ BadFieldEntry(fields) \/ BadDateBound(query)
                        /\ resp' = [op |-> "search", query |-> query, status |-> 500,
                                    error |-> "Search failed", calls |-> 1,
                                    orFields |-> fields]
                     \/ /\ ~BadDateBound(query)
                        /\ \E rows \in Ordered(SearchMatches(store, query, fields, term),
                                                field, asc, ~asc) :
                            resp' = [op |-> "search", query |-> query, status |-> 200,
                                     calls |-> 1, orFields |-> fields,
                                     rows |-> Range(rows, from, to), range |-> <<from, to>>,
                                     term |-> term, fields |-> fields,
                                     resultsCount |-> Len(rows),
                                     page |-> page, limit |-> limit, total |-> Len(rows),
                                     totalPages |-> CeilDiv(Len(rows), limit),
                                     sortField |-> field, ascending |-> asc,
                                     sortOrder |-> IF TruthyDate(query, "order")
                                                   THEN query["order"] ELSE "desc"]

(***************************************************************************)
(* GET /tasks/sort                                                         *)
(***************************************************************************)
sortableFields ==
    {"title", "author", "priority", "created_at", "updated_at", "start_date",
     "due_date", "description"}

SortField(query) ==
    IF Has(query, "sort_by") /\ query["sort_by"] \in sortableFields
    THEN query["sort_by"] ELSE "created_at"

SortMatches(st, query) ==
    { r \in { st[k] : k \in DOMAIN st } : Filtered(r, query, TRUE) }

Sort(query) ==
    /\ UNCHANGED <<store, nextId, usedIds, inflight>>
    /\ LET field == SortField(query)
           asc == Ascending(query)
           limit == PageLimit(query, 20)
           page == PageNumber(query)
           from == (page - 1) * limit
           to == from + limit - 1
       IN  IF BadDateBound(query)
           THEN resp' = [op |-> "sort", query |-> query, status |-> 500,
                         error |-> "Failed to sort tasks", calls |-> 1]
           ELSE \E rows \in Ordered(SortMatches(store, query), field, asc, FALSE) :
                   resp' = [op |-> "sort", query |-> query, status |-> 200, calls |-> 1,
                            rows |-> Range(rows, from, to), range |-> <<from, to>>,
                            sortField |-> field, ascending |-> asc,
                            sortOrder |-> IF asc THEN "asc" ELSE "desc",
                            page |-> page, limit |-> limit, total |-> Len(rows),
                            totalPages |-> CeilDiv(Len(rows), limit)]

(***************************************************************************)
(* Requests.                                                               *)
(***************************************************************************)
\* An object is put together from optional members: None has no key.
None == [k \in {} |-> k]
Opt(k, values) == {None} \cup { k :> v : v \in values }

\* Bodies of POST /tasks in the life-cycle specification: one per validation
\* outcome, two of them accepted.
FullBody ==
    [title |-> <<" ", "A">>, author |-> <<"b", " ">>, priority |-> <<"H", "I", "G", "H">>,
     description |-> <<" ", "a", "b">>, start_date |-> "2024-01-01",
     due_date |-> "2024-01-10"]

CreateBodies ==
    { None,
      [title |-> <<" ", "A">>],
      [title |-> <<" ">>, author |-> <<"b", " ">>],
      [title |-> <<" ", "A">>, author |-> <<"b", " ">>],
      FullBody,
      [FullBody EXCEPT !.priority = <<"x">>],
      [FullBody EXCEPT !.due_date = "soon"],
      [FullBody EXCEPT !.start_date = "2024-01-10", !.due_date = "2024-01-01"] }

\* Bodies of PATCH /tasks/:id: one field, two fields, and a body that carries
\* an id (the first id handed out, or one not handed out yet).
UpdateBodies ==
    { [description |-> <<"d", "o", "n", "e">>],
      [title |-> <<>>, description |-> <<"d", "o", "n", "e">>],
      [id |-> 1],
      [id |-> MaxId + 1] }

\* Query strings of GET /tasks.
ListQueries == { None, [limit |-> 1, page |-> 2] }

\* Query strings of GET /tasks/search in the life-cycle specification.
SearchQueries ==
    { None,
      [q |-> <<" ">>, fields |-> <<"title">>],
      [q |-> <<"a">>],
      [q |-> <<"a">>, fields |-> <<"id">>] }

\* Query strings of GET /tasks/sort in the life-cycle specification.
SortQueries == { None, [sort_by |-> "priority", order |-> "asc"] }

(***************************************************************************)
(* Specification: requests are handled one at a time, in any order.        *)
(***************************************************************************)
Init ==
    /\ store = None
    /\ nextId = 1
    /\ usedIds = {}
    /\ resp = [op |-> "none"]
    /\ inflight = [c \in Clients |-> Idle]

Next ==
    \/ \E body \in CreateBodies : Create(body)
    \/ \E id \in ReqIds : GetById(id)
    \/ \E query \in ListQueries : List(query)
    \/ \E query \in SearchQueries : Search(query)
    \/ \E query \in SortQueries : Sort(query)
    \/ \E id \in ReqIds, updates \in UpdateBodies : Update(id, updates)
    \/ \E id \in ReqIds : Delete(id)

Spec == Init /\ [][Next]_vars

(***************************************************************************)
(* Properties of the life-cycle specification.                             *)
(***************************************************************************)
\* The row of the table that holds id, when there is exactly one.
RowWithId(st, id) == st[CHOOSE k \in KeysWithId(st, id) : TRUE]

\* The Task validity predicate of the data model.
ValidTask(r) ==
    /\ Has(r, "title") /\ r["title"] # <<>>
    /\ Has(r, "author") /\ r["author"] # <<>>
    /\ Has(r, "priority") => r["priority"] \in validPriorities
    /\ Has(r, "start_date") /\ Has(r, "due_date") =>
          DateParse(r["start_date"]) <= DateParse(r["due_date"])

\* C1: after any sequence of Create, Update and Delete requests every task in
\* the store is valid: title and author non-empty, priority (if set) one of
\* low/medium/high, start_date <= due_date when both are set.
C1_StoredTasksValid == \A k \in DOMAIN store : ValidTask(store[k])

\* C2: a task keeps the id the store assigned at creation whatever the requests
\* (an Update whose body carries an id included), and a task that enters the
\* store never gets an id some task has held before.
C2_IdStableNeverReused ==
    [][ /\ \A k \in DOMAIN store \cap DOMAIN store' : store'[k]["id"] = store[k]["id"]
        /\ \A k \in DOMAIN store' \ DOMAIN store : store'[k]["id"] \notin usedIds ]_vars

\* C4: a request answered 400 has issued no store call, and the store is as it
\* was before the request.
C4_ValidationBeforeStore ==
    [][ resp'.status = 400 =>
            /\ resp'.calls = 0
            /\ store' = store
            /\ nextId' = nextId ]_vars

\* A Create was refused with 400 while the store held a task.
C4_Witness ==
    /\ resp.op = "create"
    /\ resp.status = 400
    /\ resp.error = "Start date cannot be after due date"
    /\ DOMAIN store # {}

\* C5: an Update for an id that resolves to no row is answered 404 and leaves
\* every row of the store as it was.
C5_UpdateMissingIs404 ==
    [][ resp'.op = "update" /\ KeysWithId(store, resp'.id) = {} =>
            resp'.status = 404 /\ store' = store ]_vars

\* An Update of a missing id was answered while the store held a task.
C5_Witness ==
    /\ resp.op = "update"
    /\ resp.status = 404
    /\ KeysWithId(store, resp.id) = {}
    /\ DOMAIN store # {}

\* C6: Delete of an id that resolves to no row is answered 404; Delete of an
\* existing id is answered with the record as it was before the deletion, and a
\* Get by id of that id right after it is answered NotFound (404).
C6_DeleteThenGetNotFound ==
    [][ resp'.op = "delete" =>
            IF KeysWithId(store, resp'.id) = {}
            THEN resp'.status = 404
            ELSE /\ resp'.status = 200
                 /\ resp'.data = RowWithId(store, resp'.id)
                 /\ GetByIdResponse(store', resp'.id).status = 404 ]_vars

\* C10: a successful Update writes exactly the fields of its body to the task:
\* every other column of that task and every other task is as before, and the
\* response carries the task as it is now stored.
C10_UpdateFrame ==
    [][ resp'.op = "update" /\ resp'.status = 200 =>
            LET k == CHOOSE j \in KeysWithId(store, resp'.id) : TRUE
            IN  /\ KeysWithId(store, resp'.id) # {}
                /\ DOMAIN store' = DOMAIN store
                /\ \A j \in DOMAIN store \ {k} : store'[j] = store[j]
                /\ \A c \in DOMAIN resp'.body :
                      Has(store'[k], c) /\ store'[k][c] = resp'.body[c]
                /\ \A c \in Columns \ DOMAIN resp'.body :
                      /\ Has(store'[k], c) <=> Has(store[k], c)
                      /\ Has(store[k], c) => store'[k][c] = store[k][c]
                /\ resp'.data = store'[k] ]_vars

\* An Update changed one field of a task that has others set, next to another task.
C10_Witness ==
    /\ resp.op = "update"
    /\ resp.status = 200
    /\ DOMAIN resp.body = {"description"}
    /\ Has(resp.data, "priority")
    /\ resp.data["description"] = resp.body["description"]
    /\ Cardinality(DOMAIN store) = 2

(***************************************************************************)
(* Specification of creation: every combination of title and author with   *)
(* each kind of optional part, then fetches and deletions.                 *)
(***************************************************************************)
OptionalParts ==
    { None,
      [priority |-> <<"H", "I", "G", "H">>, description |-> <<" ", "a", "b">>,
       start_date |-> "2024-01-01", due_date |-> "2024-01-01T00:00:00Z"],
      [priority |-> <<"x">>],
      [description |-> <<>>, start_date |-> ""],
      [description |-> <<" ">>],
      [due_date |-> "soon"],
      [start_date |-> "soon"],
      [priority |-> <<"l", "o", "w">>, due_date |-> "soon"],
      [priority |-> <<"l", "o", "w">>, start_date |-> "2024-01-01"],
      [description |-> <<"a", "b", " ">>, due_date |-> "2024-01-10"],
      [start_date |-> "2024-01-10", due_date |-> "2024-01-01"] }

RichBodies ==
    { t @@ a @@ o :
        t \in Opt("title", { <<>>, <<" ">>, <<" ", "A">> }),
        a \in Opt("author", { <<" ", " ">>, <<"b", " ">> }),
        o \in OptionalParts }

NextCreate ==
    \/ \E body \in RichBodies : Create(body)
    \/ \E id \in ReqIds : GetById(id)
    \/ \E id \in ReqIds : Delete(id)

SpecCreate == Init /\ [][NextCreate]_vars

\* The field is missing, empty, or holds nothing but blanks.
Blank(o, k) == ~Has(o, k) \/ \A i \in 1..Len(o[k]) : o[k][i] = " "

\* C3: a Create whose title or author is missing, empty or only whitespace is
\* answered 400 and the store holds the same rows after it as before.
C3_BlankTitleOrAuthorRejected ==
    [][ resp'.op = "create" /\ (Blank(resp'.body, "title") \/ Blank(resp'.body, "author")) =>
            resp'.status = 400 /\ store' = store ]_vars

\* A Create with a whitespace author was refused while the store held a task.
C3_Witness ==
    /\ resp.op = "create"
    /\ resp.status = 400
    /\ ~Blank(resp.body, "title")
    /\ Has(resp.body, "author") /\ resp.body["author"] = <<" ", " ">>
    /\ DOMAIN store # {}

ClientFields == {"title", "author", "priority", "description", "start_date", "due_date"}

\* The client fields of a record.
Fields(r) == [k \in DOMAIN r \cap ClientFields |-> r[k]]

\* The response of a Get by id issued right after the step.
FetchAfter == GetByIdResponse(store', resp'.data["id"])

\* C8 as stated: the record fetched after a Create has the fields F of the request.
C8_RoundTripVerbatim ==
    [][ resp'.op = "create" /\ resp'.status = 201 =>
            FetchAfter.status = 200 /\ Fields(FetchAfter.data) = resp'.body ]_vars

\* t is s without the blanks at its two ends.
IsTrimOf(t, s) ==
    /\ t = <<>> \/ (t[1] # " " /\ t[Len(t)] # " ")
    /\ \E i \in 0..Len(s) :
          /\ i + Len(t) <= Len(s)
          /\ SubSeq(s, i + 1, i + Len(t)) = t
          /\ \A j \in (1..i) \cup ((i + Len(t) + 1)..Len(s)) : s[j] = " "

\* The value of field k in record r is the value given in F, as Create normalises it.
NormalisedField(r, F, k) ==
    IF k \in {"start_date", "due_date"}
    THEN IF Has(F, k) /\ F[k] # ""
         THEN Has(r, k) /\ DateParse(r[k]) = DateParse(F[k])
         ELSE ~Has(r, k)
    ELSE IF Has(F, k) /\ F[k] # <<>>
         THEN /\ Has(r, k)
              /\ IF k = "priority"
                 THEN /\ Len(r[k]) = Len(F[k])
                      /\ \A i \in 1..Len(r[k]) : r[k][i] = LowerChar(F[k][i])
                 ELSE IsTrimOf(r[k], F[k])
         ELSE ~Has(r, k)

\* C8 (amended): the record fetched right after a Create has the fields F as
\* Create normalises them (title, author and description trimmed, priority in
\* lower case, absent or empty fields unset, dates naming the instants given),
\* plus the id and created_at the store assigned.
C8_RoundTripNormalised ==
    [][ resp'.op = "create" /\ resp'.status = 201 =>
            /\ FetchAfter.status = 200
            /\ FetchAfter.data = resp'.data
            /\ \A k \in ClientFields : NormalisedField(FetchAfter.data, resp'.body, k)
            /\ Has(FetchAfter.data, "id") /\ Has(FetchAfter.data, "created_at") ]_vars

\* A task was created from a body whose title, priority and description are
\* stored in another form than given, next to an earlier task.
C8_Witness ==
    /\ resp.op = "create"
    /\ resp.status = 201
    /\ Has(resp.body, "description")
    /\ Has(resp.data, "description")
    /\ resp.data["description"] # resp.body["description"]
    /\ Has(resp.data, "priority")
    /\ resp.data["priority"] # resp.body["priority"]
    /\ GetByIdResponse(store, resp.data["id"]).status = 200
    /\ Cardinality(DOMAIN store) = 2

(***************************************************************************)
(* Specification of the queries: a table filled by Create from a few       *)
(* bodies, read by List, Search and Sort with many query strings.          *)
(***************************************************************************)
SeedBodies ==
    { [title |-> <<"A">>, author |-> <<"b">>, description |-> <<"a", "b">>],
      [title |-> <<"B">>, author |-> <<"b">>, priority |-> <<"H", "I", "G", "H">>,
       start_date |-> "2024-01-01", due_date |-> "2024-01-10"],
      [title |-> <<"b">>, author |-> <<"A">>, priority |-> <<"l", "o", "w">>,
       description |-> <<"a">>, due_date |-> "2024-01-01"] }

PagedQueries ==
    { l @@ p : l \in Opt("limit", {-1, 0, 1, 2, 100, 101}),
               p \in Opt("page", {-1, 0, 1, 2, 3}) }

\* Search terms and field lists.  "zzz" is no searchable field; one entry
\* carries a blank in front.
TermQueries ==
    { q @@ f :
        q \in Opt("q", { <<" ">>, <<" ", "a">>, <<"B">>, <<"_">> }),
        f \in Opt("fields", { <<"title">>, <<"description", ",", "author">>,
                              <<"title", ",", "zzz">>, <<"zzz">>,
                              <<"priority", ",", " ", "title">> }) }

\* Structured filters next to a term every seed row matches.
DateFilters ==
    { None,
      [start_date_from |-> "2024-01-01"],
      [start_date_to |-> "2024-01-01", due_date_from |-> "2024-01-10"],
      [due_date_to |-> "2024-01-01"],
      [start_date_from |-> "soon"] }

FilterQueries ==
    { [q |-> <<"b">>] @@ p @@ a @@ d :
        p \in Opt("priority", { <<"h", "i", "g", "h", ",", " ", "l", "o", "w">>,
                                <<"H", "I", "G", "H">> }),
        a \in Opt("author", { <<"B", " ">> }),
        d \in DateFilters }

\* Sorting and windowing of a search.
OrderQueries ==
    { [q |-> <<"b">>] @@ s @@ o @@ l :
        s \in Opt("sort", {"title", "id"}),
        o \in Opt("order", {"asc", "ASC"}),
        l \in Opt("limit", {1}) }

RichSearchQueries == TermQueries \cup FilterQueries \cup OrderQueries

RichSortQueries ==
    { s @@ o @@ p :
        s \in Opt("sort_by", {"priority", "id"}),
        o \in Opt("order", {"asc"}),
        p \in { None, [priority |-> <<"H", "I", "G", "H">>, author |-> <<"b">>],
                [limit |-> 1, page |-> 2], [due_date_to |-> "soon"] } }

NextQuery ==
    \/ \E body \in SeedBodies : Create(body)
    \/ \E query \in PagedQueries : List(query)
    \/ \E query \in RichSearchQueries : Search(query)
    \/ \E query \in RichSortQueries : Sort(query)

SpecQuery == Init /\ [][NextQuery]_vars

ContainsIgnoringCase(text, term) ==
    \E i \in 0..(Len(text) - Len(term)) :
        \A j \in 1..Len(term) : LowerChar(text[i + j]) = LowerChar(term[j])

\* The rows a search is to return: the term is a substring of one of the
\* selected fields and every structured filter given holds.
Expected(query, fields, term) ==
    { r \in Rows :
        /\ \E i \in 1..Len(fields) :
              LET c == Trim(fields[i])[1]
              IN  Has(r, c) /\ ContainsIgnoringCase(r[c], term)
        /\ Truthy(query, "priority") =>
              Has(r, "priority") /\ r["priority"] \in Priorities(query, FALSE)
        /\ Truthy(query, "author") =>
              ContainsIgnoringCase(r["author"], Trim(query["author"]))
        /\ \A k \in DateBounds : TruthyDate(query, k) =>
              LET c == IF k \in {"start_date_from", "start_date_to"}
                       THEN "start_date" ELSE "due_date"
              IN  /\ Has(r, c)
                  /\ IF k \in {"start_date_from", "due_date_from"}
                     THEN DateParse(r[c]) >= DateParse(query[k])
                     ELSE DateParse(r[c]) <= DateParse(query[k]) }

\* C9: a Search matches exactly the rows in which the term is a
\* case-insensitive substring of a selected field and for which every
\* structured filter holds: the count is theirs, and the page returned is
\* taken from them (all of them when the window is wide enough).
C9_SearchMatchesExactly ==
    resp.op = "search" /\ resp.status = 200 =>
        LET want == Expected(resp.query, resp.fields, resp.term)
        IN  /\ resp.resultsCount = Cardinality(want)
            /\ ToSet(resp.rows) \subseteq want
            /\ resp.page = 1 /\ resp.limit >= Cardinality(want) => ToSet(resp.rows) = want

\* x brought into lo..hi.
Clamped(x, lo, hi) == IF x < lo THEN lo ELSE IF x > hi THEN hi ELSE x

\* C14: for every integer or absent limit and page of a List, the effective
\* limit is the limit given clamped to [1,100] (10 when absent), the effective
\* page is the page given floored at 1 (1 when absent), and the store is asked
\* for the window [(page-1)*limit, (page-1)*limit + limit - 1].
C14_ListLimitClamped ==
    resp.op = "list" =>
        LET limit == IF Has(resp.query, "limit")
                     THEN Clamped(resp.query["limit"], 1, 100) ELSE 10
            page == IF Has(resp.query, "page") /\ resp.query["page"] > 1
                    THEN resp.query["page"] ELSE 1
        IN  /\ resp.limit = limit
            /\ resp.page = page
            /\ resp.range = <<(page - 1) * limit, (page - 1) * limit + limit - 1>>

\* C16: the order a Search reports in its sorting block is the direction
\* applied to the query: "asc" exactly when the order parameter is asc, "desc"
\* for any other or absent value.
C16_ReportedOrderIsApplied ==
    resp.op = "search" /\ resp.status = 200 =>
        /\ resp.ascending <=> (Has(resp.query, "order") /\ resp.query["order"] = "asc")
        /\ resp.sortOrder = IF resp.ascending THEN "asc" ELSE "desc"

\* C15: the field list a Search with a fields parameter puts in its query and
\* reports in its response holds only members of {title, description, author,
\* priority}: unknown entries are dropped, and when none remains the request is
\* answered 400.
C15_ResolvedFieldsSearchable ==
    resp.op = "search" /\ Truthy(resp.query, "fields") =>
        LET given == Split(resp.query["fields"], ",")
        IN  /\ Has(resp, "orFields") =>
                  \A i \in 1..Len(resp.orFields) :
                      resp.orFields[i] \in ToSet(searchableFields)
            /\ resp.status = 200 =>
                  \A i \in 1..Len(resp.fields) : resp.fields[i] \in ToSet(searchableFields)
            /\ (\A i \in 1..Len(given) : Trim(given[i]) \notin ToSet(searchableFields)) =>
                  resp.status = 400

(***************************************************************************)
(* A store call that throws (its promise rejects) instead of returning an  *)
(* error value.  The handlers of POST /tasks, /tasks/search and /tasks/sort *)
(* run inside try/catch, GET /tasks awaits the store inside try/catch; the  *)
(* handlers of GET, PATCH and DELETE /tasks/:id await it outside any.       *)
(***************************************************************************)
\* The catch block of a handler: 500, "Internal server error".
Caught(request) ==
    request @@ [threw |-> TRUE, answered |-> TRUE, status |-> 500,
                error |-> "Internal server error"]

\* No catch block: the rejection leaves the async handler, which the router does
\* not await, and the handler never reaches a res.status(..).json(..).
Uncaught(request) ==
    request @@ [threw |-> TRUE, answered |-> FALSE]

\* The insert is reached once validation has passed.
CreateThrows(body) ==
    /\ CreateValidate(body) = "ok"
    /\ resp' = Caught([op |-> "create", body |-> body])
    /\ UNCHANGED <<store, nextId, usedIds, inflight>>

GetByIdThrows(id) ==
    /\ id # NoId
    /\ resp' = Uncaught([op |-> "get", id |-> id])
    /\ UNCHANGED <<store, nextId, usedIds, inflight>>

ListThrows(query) ==
    /\ resp' = Caught([op |-> "list", query |-> query])
    /\ UNCHANGED <<store, nextId, usedIds, inflight>>

\* The query is awaited once q and the field list have passed their checks.
SearchThrows(query) ==
    /\ Truthy(query, "q") /\ Trim(query["q"]) # <<>>
    /\ FieldsToSearch(query) # <<>>
    /\ resp' = Caught([op |-> "search", query |-> query])
    /\ UNCHANGED <<store, nextId, usedIds, inflight>>

SortThrows(query) ==
    /\ resp' = Caught([op |-> "sort", query |-> query])
    /\ UNCHANGED <<store, nextId, usedIds, inflight>>

\* call 1 is the existence check, call 2 the update, reached when the check
\* found the row.
UpdateThrows(id, updates, call) ==
    /\ id # NoId
    /\ call = 2 => ~StoreSelectSingle(store, id).error
    /\ resp' = Uncaught([op |-> "update", id |-> id, body |-> updates, calls |-> call])
    /\ UNCHANGED <<store, nextId, usedIds, inflight>>

DeleteThrows(id, call) ==
    /\ id # NoId
    /\ call = 2 => ~StoreSelectSingle(store, id).error
    /\ resp' = Uncaught([op |-> "delete", id |-> id, calls |-> call])
    /\ UNCHANGED <<store, nextId, usedIds, inflight>>

NextFault ==
    \/ \E body \in CreateBodies : Create(body)
    \/ \E id \in ReqIds : GetById(id)
    \/ \E id \in ReqIds : Delete(id)
    \/ \E body \in CreateBodies : CreateThrows(body)
    \/ \E id \in ReqIds : GetByIdThrows(id)
    \/ \E query \in ListQueries : ListThrows(query)
    \/ \E query \in SearchQueries : SearchThrows(query)
    \/ \E query \in SortQueries : SortThrows(query)
    \/ \E id \in ReqIds, updates \in UpdateBodies, call \in {1, 2} :
          UpdateThrows(id, updates, call)
    \/ \E id \in ReqIds, call \in {1, 2} : DeleteThrows(id, call)

SpecFault == Init /\ [][NextFault]_vars

\* C11: in each of the seven handlers a failure raised during handling, such as
\* a store call that throws, is caught and answered with a 500 response.
C11_ThrowAnswered500 ==
    Has(resp, "threw") => resp.answered /\ resp.status = 500

(***************************************************************************)
(* Concurrent requests.  The handlers of PATCH and DELETE /tasks/:id await *)
(* the existence check and then the mutation; between the two awaits the   *)
(* handlers of other requests run.                                         *)
(***************************************************************************)
\* PATCH up to the first await: 404 when the check finds no single row,
\* otherwise the handler is suspended before its update call.
UpdateCheck(c, id, updates) ==
    /\ inflight[c] = Idle
    /\ id # NoId
    /\ UNCHANGED <<store, nextId, usedIds>>
    /\ IF StoreSelectSingle(store, id).error
       THEN /\ resp' = [op |-> "update", id |-> id, body |-> updates, status |-> 404,
                        error |-> "Task not found", calls |-> 1]
            /\ UNCHANGED inflight
       ELSE /\ inflight' = [inflight EXCEPT
                               ![c] = [op |-> "update", id |-> id, body |-> updates]]
            /\ UNCHANGED resp

\* Faulty variant: an update that returned no row is answered 404.
UpdateApplyNotFound(c) ==
    /\ inflight[c].op = "update"
    /\ LET id == inflight[c].id
           updates == inflight[c].body
           r == StoreUpdate(store, id, updates)
       IN  /\ store' = r.store
           /\ inflight' = [inflight EXCEPT ![c] = Idle]
           /\ UNCHANGED nextId
           /\ IF r.error
              THEN /\ resp' = [op |-> "update", id |-> id, body |-> updates,
                               status |-> 500, error |-> "store", calls |-> 2]
                   /\ UNCHANGED usedIds
              ELSE IF r.data = <<>>
              THEN /\ resp' = [op |-> "update", id |-> id, body |-> updates,
                               status |-> 404, error |-> "Task not found", calls |-> 2]
                   /\ UNCHANGED usedIds
              ELSE /\ resp' = [op |-> "update", id |-> id, body |-> updates,
                               status |-> 200, data |-> r.data[1], calls |-> 2]
                   /\ usedIds' = usedIds \cup {r.data[1]["id"]}

\* PATCH from the update call on.  With no row returned data[0] is undefined and
\* the body sent is {}: a 200 without data.
UpdateApply(c) ==
    /\ inflight[c].op = "update"
    /\ LET id == inflight[c].id
           updates == inflight[c].body
           r == StoreUpdate(store, id, updates)
       IN  /\ store' = r.store
           /\ inflight' = [inflight EXCEPT ![c] = Idle]
           /\ UNCHANGED nextId
           /\ IF r.error
              THEN /\ resp' = [op |-> "update", id |-> id, body |-> updates,
                               status |-> 500, error |-> "store", calls |-> 2]
                   /\ UNCHANGED usedIds
              ELSE IF r.data = <<>>
              THEN /\ resp' = [op |-> "update", id |-> id, body |-> updates,
                               status |-> 200, calls |-> 2]
                   /\ UNCHANGED usedIds
              ELSE /\ resp' = [op |-> "update", id |-> id, body |-> updates,
                               status |-> 200, data |-> r.data[1], calls |-> 2]
                   /\ usedIds' = usedIds \cup {r.data[1]["id"]}

\* DELETE up to the first await.
DeleteCheck(c, id) ==
    /\ inflight[c] = Idle
    /\ id # NoId
    /\ UNCHANGED <<store, nextId, usedIds>>
    /\ IF StoreSelectSingle(store, id).error
       THEN /\ resp' = [op |-> "delete", id |-> id, status |-> 404,
                        error |-> "Task not found", calls |-> 1]
            /\ UNCHANGED inflight
       ELSE /\ inflight' = [inflight EXCEPT ![c] = [op |-> "delete", id |-> id]]
            /\ UNCHANGED resp

\* DELETE from the delete call on.
DeleteApply(c) ==
    /\ inflight[c].op = "delete"
    /\ LET id == inflight[c].id
           r == StoreDelete(store, id)
       IN  /\ store' = r.store
           /\ inflight' = [inflight EXCEPT ![c] = Idle]
           /\ UNCHANGED <<nextId, usedIds>>
           /\ resp' = IF r.data = <<>>
                      THEN [op |-> "delete", id |-> id, status |-> 200, calls |-> 2]
                      ELSE [op |-> "delete", id |-> id, status |-> 200,
                            data |-> r.data[1], calls |-> 2]

\* Bodies that leave the id alone, so that only a delete removes the row of an id.
RaceUpdates == { [title |-> <<"B">>] }

\* The task the concurrent requests are about.
RaceBodies == { [title |-> <<"A">>, author |-> <<"b">>] }

NextRace ==
    \/ \E body \in RaceBodies : Create(body)
    \/ \E c \in Clients, id \in ReqIds, updates \in RaceUpdates : UpdateCheck(c, id, updates)
    \/ \E c \in Clients : UpdateApply(c)
    \/ \E c \in Clients, id \in ReqIds : DeleteCheck(c, id)
    \/ \E c \in Clients : DeleteApply(c)

SpecRace == Init /\ [][NextRace]_vars

\* C12: the existence check and the update of an Update are two store calls,
\* and a Delete of the same id can run between them: the update call issued
\* after the row is gone affects no row, changes nothing in the table, and the
\* request is answered 200 without a task, not 404.
C12_UpdateAfterDeleteNot404 ==
    [][ \A c \in Clients :
            UpdateApply(c) /\ KeysWithId(store, inflight[c].id) = {} =>
                /\ resp'.op = "update" /\ resp'.id = inflight[c].id
                /\ resp'.status = 200 /\ resp'.status # 404
                /\ ~Has(resp', "data")
                /\ store' = store ]_vars

\* An Update whose check had found the row was answered 200 with no task, its
\* two store calls made, the row of its id gone from the table.
C12_Witness ==
    /\ resp.op = "update" /\ resp.calls = 2 /\ resp.status = 200
    /\ ~Has(resp, "data")
    /\ resp.id \in usedIds
    /\ KeysWithId(store, resp.id) = {}

\* C13: a Delete answered 200 returns the row it removed, as the row was just
\* before the deletion, whatever other Deletes of the same id run meanwhile.
C13_DeleteReturnsRemovedRow ==
    [][ \A c \in Clients :
            DeleteApply(c) /\ resp'.status = 200 =>
                /\ KeysWithId(store, inflight[c].id) # {}
                /\ KeysWithId(store', inflight[c].id) = {}
                /\ Has(resp', "data")
                /\ resp'.data = RowWithId(store, inflight[c].id) ]_vars

=============================================================================
